---------------------------- MODULE Spec2Model ----------------------------
(***************************************************************************)
(* State machine of the OCRUploader React component                        *)
(* (frontend/src/components/OCRUploader.jsx).                              *)
(*                                                                         *)
(* The component keeps five pieces of React state and has two async        *)
(* handlers.  Each handler runs to completion between its awaits, so every *)
(* action below is one such run: the part of a handler up to its next      *)
(* await, or the part after an awaited promise settled.  The render is a   *)
(* function of the state and gates which user events can happen.           *)
(*                                                                         *)
(* JavaScript strings are sequences of one-character strings, so that      *)
(* template literals are concatenations and startsWith is a prefix test.   *)
(***************************************************************************)
EXTENDS Naturals, Sequences, FiniteSets

---------------------------------------------------------------------------
(* Bounds of the model *)

\* number of user events (file selections, download clicks) in a run
MaxEvents == 3

\* number of distinct files the user can pick
NumFiles == 2

---------------------------------------------------------------------------
(* String literals of the component *)

ErrorPrefix == <<"E", "r", "r", "o", "r", ":", " ">>

ErrorMarker == <<"E", "r", "r", "o", "r", ":">>

ServerErrorPrefix == <<"S", "e", "r", "v", "e", "r", " ", "e", "r", "r", "o", "r", ":", " ">>

ProcessingPrefix == <<"P", "r", "o", "c", "e", "s", "s", "i", "n", "g", " ">>

Ellipsis == <<".", ".", ".">>

SuccessTextExtracted == <<"S", "u", "c", "c", "e", "s", "s", "!", " ", "T", "e", "x", "t", " ", "e", "x", "t", "r", "a", "c", "t", "e", "d", ".">>

PreparingDownload == <<"P", "r", "e", "p", "a", "r", "i", "n", "g", " ", "d", "o", "w", "n", "l", "o", "a", "d", ".", ".", ".">>

SuccessFileDownloaded == <<"S", "u", "c", "c", "e", "s", "s", "!", " ", "F", "i", "l", "e", " ", "d", "o", "w", "n", "l", "o", "a", "d", "e", "d", ".">>

DocxFileName == <<"e", "x", "t", "r", "a", "c", "t", "e", "d", "_", "t", "e", "x", "t", ".", "d", "o", "c", "x">>

---------------------------------------------------------------------------
(* JavaScript values and operators the handlers use *)

\* the value undefined (a missing property); distinct from every string
\* because its only element is not a single character
Undefined == <<"undefined">>

\* truthiness of a string-or-undefined value: "" and undefined are falsy
Truthy(v) == v # Undefined /\ v # <<>>

\* a || b
OrElse(a, b) == IF Truthy(a) THEN a ELSE b

\* s.startsWith(p)
StartsWith(s, p) == Len(s) >= Len(p) /\ SubSeq(s, 1, Len(p)) = p

DigitChar(d) == <<"0", "1", "2", "3", "4", "5", "6", "7", "8", "9">>[d + 1]

RECURSIVE NumberToString(_)
\* `${n}` for a non-negative integer n: its decimal digits
NumberToString(n) ==
    IF n < 10 THEN <<DigitChar(n)>>
    ELSE NumberToString(n \div 10) \o <<DigitChar(n % 10)>>

---------------------------------------------------------------------------
(* Inputs: files, HTTP responses, messages of thrown errors *)

FileNames == << <<"s", "a", "m", "p", "l", "e", ".", "p", "d", "f">>,
                <<"E", "r", "r", "o", "r", ":", ".", "p", "n", "g">>,
                <<"s", "c", "a", "n", ".", "p", "n", "g">> >>

\* a File object: its identity and its name
File(i) == [id |-> i, name |-> FileNames[((i - 1) % Len(FileNames)) + 1]]

Files == {File(i) : i \in 1..NumFiles}

\* null (originalFile) / undefined (e.target.files[0])
NoFile == [id |-> 0, name |-> <<>>]

StatusCodes == {200, 404, 500}

Details == {<<>>, <<"U", "n", "s", "u", "p", "p", "o", "r", "t", "e", "d", " ", "f", "i", "l", "e", " ", "t", "y", "p", "e">>}

Texts == {<<>>, <<"H", "e", "l", "l", "o", "\n", "W", "o", "r", "l", "d">>}

\* a response body: absent, not JSON, the JSON value null, or a JSON object
\* whose "detail" and "text" fields are strings or missing
Bodies ==
    {[kind |-> k, detail |-> Undefined, text |-> Undefined] :
        k \in {"absent", "garbage", "null"}}
    \cup {[kind |-> "object", detail |-> d, text |-> t] :
        d \in Details \cup {Undefined}, t \in Texts \cup {Undefined}}

\* Response.ok is true exactly for the statuses 200..299
Response(code, body) ==
    [ok |-> (code >= 200 /\ code <= 299), status |-> code, body |-> body]

Responses == {Response(c, b) : c \in StatusCodes, b \in Bodies}

NoResponse == Response(0, [kind |-> "absent", detail |-> Undefined, text |-> Undefined])

\* message of the TypeError a rejected fetch() carries
NetworkErrorMessages ==
    {<<"F", "a", "i", "l", "e", "d", " ", "t", "o", " ", "f", "e", "t", "c", "h">>}

\* message of the SyntaxError a rejected res.json() carries (engine dependent)
JsonErrorMessages ==
    {<<"U", "n", "e", "x", "p", "e", "c", "t", "e", "d", " ", "e", "n", "d", " ", "o", "f", " ", "J", "S", "O", "N", " ", "i", "n", "p", "u", "t">>,
     <<"U", "n", "e", "x", "p", "e", "c", "t", "e", "d", " ", "t", "o", "k", "e", "n">>}

\* message of the TypeError of reading a property of null (engine dependent)
TypeErrorMessages ==
    {<<"C", "a", "n", "n", "o", "t", " ", "r", "e", "a", "d", " ", "p", "r", "o", "p", "e", "r", "t", "i", "e", "s", " ", "o", "f", " ", "n", "u", "l", "l">>}

\* message of the error a rejected res.blob() carries
BlobErrorMessages ==
    {<<"T", "h", "e", " ", "n", "e", "t", "w", "o", "r", "k", " ", "c", "o", "n", "n", "e", "c", "t", "i", "o", "n", " ", "w", "a", "s", " ", "l", "o", "s", "t">>}

\* res.json(): rejects with a SyntaxError (message m) when the body is absent
\* or is not JSON, resolves with the parsed value otherwise
ParseJson(body, m) ==
    IF body.kind \in {"absent", "garbage"}
    THEN [rejected |-> TRUE, message |-> m, value |-> body]
    ELSE [rejected |-> FALSE, message |-> <<>>, value |-> body]

---------------------------------------------------------------------------
(* State *)

VARIABLES
    loading,        \* useState(false): extraction busy flag
    isDownloading,  \* useState(false): download busy flag
    status,         \* useState(""): the status message
    text,           \* useState(""): the extracted text
    originalFile,   \* useState(null): the file remembered for download
    uploads,        \* handleUpload invocations suspended at an await
    downloads,      \* handleDownload invocations suspended at an await
    saves,          \* file names of the saves triggered by a.click()
    liveUrls,       \* object URLs created and not yet revoked
    urlCount,       \* number of object URLs created so far
    count,          \* history: user events and fetch() calls so far
    textSource,     \* history: the file whose extraction set the current text
    last,           \* history: outcome of the handler that finished last
    fresh           \* history: no handler has started since `last` finished

state == <<loading, isDownloading, status, text, originalFile>>

browser == <<saves, liveUrls, urlCount>>

vars == <<loading, isDownloading, status, text, originalFile, uploads,
          downloads, saves, liveUrls, urlCount, count, textSource, last, fresh>>

NoOutcome ==
    [op |-> "none", success |-> FALSE, got |-> FALSE, res |-> NoResponse,
     file |-> NoFile, saves0 |-> 0]

nEvents ==
    count.selections + count.clicks + count.ignored + count.noFileClicks

Init ==
    /\ loading = FALSE
    /\ isDownloading = FALSE
    /\ status = <<>>
    /\ text = <<>>
    /\ originalFile = NoFile
    /\ uploads = {}
    /\ downloads = {}
    /\ saves = <<>>
    /\ liveUrls = {}
    /\ urlCount = 0
    /\ count = [selections |-> 0, clicks |-> 0, ignored |-> 0,
                noFileClicks |-> 0, extractRequests |-> 0,
                docxRequests |-> 0]
    /\ textSource = NoFile
    /\ last = NoOutcome
    /\ fresh = FALSE

---------------------------------------------------------------------------
(* The render *)

\* the input never disabled
InputDisabled_Never == FALSE

\* the gating of an earlier revision: the input ignores the download flag
InputDisabled_LoadingOnly == loading

\* <input disabled={loading || isDownloading}>
InputDisabled == loading \/ isDownloading

\* the button rendered whenever no extraction is running
DownloadButtonRendered_IgnoresText == ~loading

\* {text && !loading && <button ...>}
DownloadButtonRendered == Truthy(text) /\ ~loading

\* the button never disabled
DownloadButtonDisabled_Never == FALSE

\* <button disabled={isDownloading}>
DownloadButtonDisabled == isDownloading

\* s.includes(p)
Includes(s, p) ==
    \E i \in 1..(Len(s) + 1) :
        i + Len(p) - 1 <= Len(s) /\ SubSeq(s, i, i + Len(p) - 1) = p

\* the marker looked for anywhere in the message
StatusIsError_Includes == Includes(status, ErrorMarker)

\* status.startsWith("Error:")
StatusIsError == StartsWith(status, ErrorMarker)


---------------------------------------------------------------------------
(* Pieces of the handlers *)

\* `Server error: ${res.status}`
ServerErrorMessage(res) == ServerErrorPrefix \o NumberToString(res.status)

\* the message shown without the prefix
ErrorStatus_NoPrefix(message) == message

\* `Error: ${error.message}`
ErrorStatus(message) == ErrorPrefix \o message

\* `Processing ${file.name}...`
ProcessingStatus(file) == ProcessingPrefix \o file.name \o Ellipsis

\* the detail field ignored
UploadErrorMessage_Generic(res, data) == ServerErrorMessage(res)

\* the argument of new Error(...) in handleUpload
UploadErrorMessage(res, data) == OrElse(data.detail, ServerErrorMessage(res))

\* the text stored with its line breaks removed
ExtractedText_NoLineBreaks(data) ==
    IF data.text = Undefined THEN Undefined
    ELSE SelectSeq(data.text, LAMBDA c : c # "\n")

\* the argument of setText(...) in handleUpload
ExtractedText(data) == data.text

\* the old text left in place
ClearedText_Kept == text

\* the value of text right after handleUpload's setText("")
ClearedText == <<>>

\* the old file left in place
ClearedFile_Kept == originalFile

\* the value of originalFile right after handleUpload's setOriginalFile(null)
ClearedFile == NoFile

\* the file not remembered
RememberedFile_Forgotten(file) == NoFile

\* the argument of setOriginalFile(...) after a successful extraction
RememberedFile(file) == file

\* handleUpload from `await res.json()` to the end of the try block: jr is
\* the settled res.json(), tm the message of a TypeError.  Either an error
\* is thrown (with this message) or the text to display is returned.
UploadTry(res, jr, tm) ==
    IF jr.rejected
    THEN [threw |-> TRUE, message |-> jr.message, text |-> Undefined]
    ELSE IF jr.value.kind = "null"
    THEN [threw |-> TRUE, message |-> tm, text |-> Undefined]
    ELSE IF ~res.ok
    THEN [threw |-> TRUE, message |-> UploadErrorMessage(res, jr.value),
          text |-> Undefined]
    ELSE [threw |-> FALSE, message |-> <<>>, text |-> ExtractedText(jr.value)]

\* the object {} that .catch(() => ({})) substitutes
EmptyObject == [kind |-> "object", detail |-> Undefined, text |-> Undefined]

\* res.json() without its .catch(): a rejection propagates to the catch block
DownloadErrorMessage_NoCatch(res, jr, tm) ==
    IF jr.rejected THEN jr.message
    ELSE IF jr.value.kind = "null" THEN tm
    ELSE OrElse(jr.value.detail, ServerErrorMessage(res))

\* handleDownload's `if (!res.ok)` block: the message of the error it throws
DownloadErrorMessage(res, jr, tm) ==
    LET data == IF jr.rejected THEN EmptyObject ELSE jr.value
    IN  IF data.kind = "null" THEN tm
        ELSE OrElse(data.detail, ServerErrorMessage(res))

\* history record of a finished handler
Outcome(op, ok, got, res, file, saves0) ==
    [op |-> op, success |-> ok, got |-> got, res |-> res, file |-> file,
     saves0 |-> saves0]

---------------------------------------------------------------------------
(* handleUpload *)

\* handleUpload(e) up to `await fetch(...)`; f is e.target.files[0]
HandleUpload(f) ==
    IF f = NoFile
    THEN /\ count' = [count EXCEPT !.ignored = @ + 1]
         /\ UNCHANGED <<state, uploads, downloads, browser, textSource,
                        last, fresh>>
    ELSE /\ loading' = TRUE
         /\ status' = ProcessingStatus(f)
         /\ text' = ClearedText
         /\ originalFile' = ClearedFile
         /\ uploads' = uploads \cup
                {[id |-> count.selections + 1, file |-> f, pc |-> "fetch",
                  res |-> NoResponse]}
         /\ count' = [count EXCEPT !.selections = @ + 1,
                                   !.extractRequests = @ + 1]
         /\ textSource' = NoFile
         /\ fresh' = FALSE
         /\ UNCHANGED <<isDownloading, downloads, browser, last>>

\* the change event of the file input
InputChange(f) ==
    /\ nEvents < MaxEvents
    /\ ~InputDisabled
    /\ HandleUpload(f)

\* a catch block that issues the request again
UploadFetchRejected_Retry(u, m) ==
    /\ u.pc = "fetch"
    /\ count.extractRequests < MaxEvents + 1
    /\ status' = ErrorStatus(m)
    /\ count' = [count EXCEPT !.extractRequests = @ + 1]
    /\ last' = Outcome("upload", FALSE, FALSE, NoResponse, u.file, Len(saves))
    /\ fresh' = TRUE
    /\ UNCHANGED <<loading, isDownloading, text, originalFile, uploads,
                   downloads, browser, textSource>>

\* fetch() rejected: catch and finally blocks
UploadFetchRejected(u, m) ==
    /\ u.pc = "fetch"
    /\ status' = ErrorStatus(m)
    /\ loading' = FALSE
    /\ uploads' = uploads \ {u}
    /\ last' = Outcome("upload", FALSE, FALSE, NoResponse, u.file, Len(saves))
    /\ fresh' = TRUE
    /\ UNCHANGED <<isDownloading, text, originalFile, downloads, browser,
                   count, textSource>>

\* fetch() resolved with response r: the handler now awaits res.json()
UploadFetchResolved(u, r) ==
    /\ u.pc = "fetch"
    /\ uploads' = (uploads \ {u}) \cup {[u EXCEPT !.pc = "json", !.res = r]}
    /\ UNCHANGED <<state, downloads, browser, count, textSource, last, fresh>>

\* res.json() settled: rest of the try block, catch and finally blocks
UploadJsonSettled(u, m, tm) ==
    /\ u.pc = "json"
    /\ LET out == UploadTry(u.res, ParseJson(u.res.body, m), tm)
       IN  /\ IF out.threw
              THEN /\ status' = ErrorStatus(out.message)
                   /\ UNCHANGED <<text, originalFile, textSource>>
              ELSE /\ text' = out.text
                   /\ status' = SuccessTextExtracted
                   /\ originalFile' = RememberedFile(u.file)
                   /\ textSource' = u.file
           /\ last' = Outcome("upload", ~out.threw, TRUE, u.res, u.file,
                              Len(saves))
    /\ loading' = FALSE
    /\ uploads' = uploads \ {u}
    /\ fresh' = TRUE
    /\ UNCHANGED <<isDownloading, downloads, browser, count>>

---------------------------------------------------------------------------
(* handleDownload *)

\* handleDownload() without its `if (!originalFile) return`
HandleDownload_NoGuard ==
    /\ isDownloading' = TRUE
    /\ status' = PreparingDownload
    /\ downloads' = downloads \cup
           {[id |-> count.clicks + 1, file |-> originalFile,
             pc |-> "fetch", res |-> NoResponse, saves0 |-> Len(saves)]}
    /\ count' = [count EXCEPT !.clicks = @ + 1, !.docxRequests = @ + 1]
    /\ fresh' = FALSE
    /\ UNCHANGED <<loading, text, originalFile, uploads, browser,
                   textSource, last>>

\* handleDownload() up to `await fetch(...)`
HandleDownload ==
    IF originalFile = NoFile
    THEN /\ count' = [count EXCEPT !.noFileClicks = @ + 1]
         /\ UNCHANGED <<state, uploads, downloads, browser, textSource,
                        last, fresh>>
    ELSE /\ isDownloading' = TRUE
         /\ status' = PreparingDownload
         /\ downloads' = downloads \cup
                {[id |-> count.clicks + 1, file |-> originalFile,
                  pc |-> "fetch", res |-> NoResponse, saves0 |-> Len(saves)]}
         /\ count' = [count EXCEPT !.clicks = @ + 1, !.docxRequests = @ + 1]
         /\ fresh' = FALSE
         /\ UNCHANGED <<loading, text, originalFile, uploads, browser,
                        textSource, last>>

\* a click on the download button
DownloadClick ==
    /\ nEvents < MaxEvents
    /\ DownloadButtonRendered
    /\ ~DownloadButtonDisabled
    /\ HandleDownload

\* a catch block that also drops the displayed text
DownloadFailed_ClearsText(d, m, got) ==
    /\ status' = ErrorStatus(m)
    /\ text' = <<>>
    /\ isDownloading' = FALSE
    /\ downloads' = downloads \ {d}
    /\ last' = Outcome("download", FALSE, got, d.res, d.file, d.saves0)
    /\ fresh' = TRUE
    /\ UNCHANGED <<loading, originalFile, uploads, browser, count,
                   textSource>>

\* the catch and finally blocks of handleDownload, for an error with message m
DownloadFailed(d, m, got) ==
    /\ status' = ErrorStatus(m)
    /\ isDownloading' = FALSE
    /\ downloads' = downloads \ {d}
    /\ last' = Outcome("download", FALSE, got, d.res, d.file, d.saves0)
    /\ fresh' = TRUE
    /\ UNCHANGED <<loading, text, originalFile, uploads, browser, count,
                   textSource>>

\* fetch() rejected
DownloadFetchRejected(d, m) ==
    /\ d.pc = "fetch"
    /\ DownloadFailed(d, m, FALSE)

\* fetch() resolved with response r: the handler now awaits res.json() when
\* the status is not a success, res.blob() when it is
DownloadFetchResolved(d, r) ==
    /\ d.pc = "fetch"
    /\ downloads' = (downloads \ {d}) \cup
            {[d EXCEPT !.pc = IF r.ok THEN "blob" ELSE "json", !.res = r]}
    /\ UNCHANGED <<state, uploads, browser, count, textSource, last, fresh>>

\* res.json().catch(() => ({})) settled on the error path
DownloadJsonSettled(d, m, tm) ==
    /\ d.pc = "json"
    /\ DownloadFailed(d, DownloadErrorMessage(d.res, ParseJson(d.res.body, m), tm),
                      TRUE)

\* res.blob() rejected
DownloadBlobRejected(d, m) ==
    /\ d.pc = "blob"
    /\ DownloadFailed(d, m, TRUE)

\* window.URL.createObjectURL(blob), giving the URL url
CreateObjectURL(urls, url) == urls \cup {url}

\* the URL never released
RevokeObjectURL_Leak(urls, url) == urls

\* window.URL.revokeObjectURL(url)
RevokeObjectURL(urls, url) == urls \ {url}

\* res.blob() resolved: the save, the revocation and the success status
DownloadBlobResolved(d) ==
    /\ d.pc = "blob"
    /\ LET url == urlCount + 1
       IN  /\ urlCount' = url
           /\ saves' = Append(saves, DocxFileName)
           /\ liveUrls' = RevokeObjectURL(CreateObjectURL(liveUrls, url), url)
    /\ status' = SuccessFileDownloaded
    /\ isDownloading' = FALSE
    /\ downloads' = downloads \ {d}
    /\ last' = Outcome("download", TRUE, TRUE, d.res, d.file, d.saves0)
    /\ fresh' = TRUE
    /\ UNCHANGED <<loading, text, originalFile, uploads, count, textSource>>

---------------------------------------------------------------------------
(* The component *)

Next ==
    \/ \E f \in Files \cup {NoFile} : InputChange(f)
    \/ DownloadClick
    \/ \E u \in uploads, m \in NetworkErrorMessages : UploadFetchRejected(u, m)
    \/ \E u \in uploads, r \in Responses : UploadFetchResolved(u, r)
    \/ \E u \in uploads, m \in JsonErrorMessages, tm \in TypeErrorMessages :
            UploadJsonSettled(u, m, tm)
    \/ \E d \in downloads, m \in NetworkErrorMessages : DownloadFetchRejected(d, m)
    \/ \E d \in downloads, r \in Responses : DownloadFetchResolved(d, r)
    \/ \E d \in downloads, m \in JsonErrorMessages, tm \in TypeErrorMessages :
            DownloadJsonSettled(d, m, tm)
    \/ \E d \in downloads, m \in BlobErrorMessages : DownloadBlobRejected(d, m)
    \/ \E d \in downloads : DownloadBlobResolved(d)

Spec == Init /\ [][Next]_vars

\* handleDownload called whether or not the button is rendered (but not
\* while the button is disabled)
DownloadCall ==
    /\ nEvents < MaxEvents
    /\ ~DownloadButtonDisabled
    /\ HandleDownload

NextHandlers ==
    \/ \E f \in Files \cup {NoFile} : InputChange(f)
    \/ DownloadCall
    \/ \E u \in uploads, m \in NetworkErrorMessages : UploadFetchRejected(u, m)
    \/ \E u \in uploads, r \in Responses : UploadFetchResolved(u, r)
    \/ \E u \in uploads, m \in JsonErrorMessages, tm \in TypeErrorMessages :
            UploadJsonSettled(u, m, tm)
    \/ \E d \in downloads, m \in NetworkErrorMessages : DownloadFetchRejected(d, m)
    \/ \E d \in downloads, r \in Responses : DownloadFetchResolved(d, r)
    \/ \E d \in downloads, m \in JsonErrorMessages, tm \in TypeErrorMessages :
            DownloadJsonSettled(d, m, tm)
    \/ \E d \in downloads, m \in BlobErrorMessages : DownloadBlobRejected(d, m)
    \/ \E d \in downloads : DownloadBlobResolved(d)

SpecHandlers == Init /\ [][NextHandlers]_vars

TypeOK ==
    /\ loading \in BOOLEAN
    /\ isDownloading \in BOOLEAN
    /\ originalFile \in Files \cup {NoFile}
    /\ Cardinality(uploads) + Cardinality(downloads) <= MaxEvents

---------------------------------------------------------------------------
(* Properties *)

\* the handler that finished last, with no handler started since
Finished(op) == fresh /\ last.op = op

\* the last handler received a non-success response
NonSuccessResponse == last.got /\ ~last.res.ok

\* ... whose body is absent or is not JSON
UnparseableBody == last.res.body.kind \in {"absent", "garbage"}

\* ... whose body is a JSON object with a string "detail"
HasDetail == last.res.body.kind = "object" /\ last.res.body.detail # Undefined

\* "Error: Server error: <status code>" for the last response
GenericErrorStatus ==
    ErrorPrefix \o ServerErrorPrefix \o NumberToString(last.res.status)

Idle == uploads = {} /\ downloads = {}

\* C1: after handleUpload finishes on a non-success response whose body is
\* absent or not parseable as JSON, the status message is
\* "Error: Server error: <status code>".
C1_UploadUnparseableBodyGivesServerError ==
    (Finished("upload") /\ NonSuccessResponse /\ UnparseableBody)
        => status = GenericErrorStatus

\* C2: after handleDownload finishes on a non-success response whose body is
\* absent or not parseable as JSON, the status message is
\* "Error: Server error: <status code>", no save was triggered and the
\* download busy flag is false.
C2_DownloadUnparseableBodyGivesServerError ==
    (Finished("download") /\ NonSuccessResponse /\ UnparseableBody)
        => /\ status = GenericErrorStatus
           /\ Len(saves) = last.saves0
           /\ isDownloading = FALSE

C2_Witness ==
    /\ Finished("download") /\ NonSuccessResponse
    /\ last.res.body.kind = "garbage"
    /\ last.res.status = 500
    /\ status = ErrorPrefix \o ServerErrorPrefix \o <<"5", "0", "0">>

\* C3 as stated: for either handler and any detail string X, a non-success
\* response with JSON body {"detail": X} leaves the status "Error: X".
C3_AnyDetailIsShown ==
    (fresh /\ last.op \in {"upload", "download"} /\ NonSuccessResponse
           /\ HasDetail)
        => status = ErrorPrefix \o last.res.body.detail

\* C3 amended: for either handler and any non-empty detail string X, a
\* non-success response with JSON body {"detail": X} leaves the status
\* "Error: X"; an empty detail gives "Error: Server error: <status code>".
C3_NonEmptyDetailIsShown ==
    (fresh /\ last.op \in {"upload", "download"} /\ NonSuccessResponse
           /\ HasDetail)
        => status = IF last.res.body.detail # <<>>
                    THEN ErrorPrefix \o last.res.body.detail
                    ELSE GenericErrorStatus

C3_Witness ==
    /\ Finished("upload") /\ NonSuccessResponse /\ HasDetail
    /\ last.res.body.detail # <<>>
    /\ status = ErrorPrefix \o last.res.body.detail

\* C4: after handleUpload finishes on a success response whose JSON body has
\* "text" = S, the extracted text is S, the status is "Success! Text
\* extracted." and the extraction busy flag is false.
C4_SuccessfulExtractionShowsText ==
    (Finished("upload") /\ last.got /\ last.res.ok
        /\ last.res.body.kind = "object" /\ last.res.body.text # Undefined)
        => /\ text = last.res.body.text
           /\ status = SuccessTextExtracted
           /\ loading = FALSE

C4_Witness ==
    /\ Finished("upload") /\ last.got /\ last.res.ok
    /\ last.res.body.kind = "object"
    /\ "\n" \in {last.res.body.text[i] : i \in 1..Len(last.res.body.text)}
    /\ text = last.res.body.text

\* C5: the download button is absent whenever the extracted text is empty,
\* and present whenever it is non-empty and neither an extraction nor a
\* download is in flight.
C5_DownloadButtonPresence ==
    /\ (text = <<>> \/ text = Undefined) => ~DownloadButtonRendered
    /\ (text # <<>> /\ text # Undefined /\ Idle) => DownloadButtonRendered

C5_Witness ==
    /\ text # <<>> /\ text # Undefined /\ Idle /\ DownloadButtonRendered
    /\ last.op = "download" /\ ~last.success

\* C6: every download in flight carries the file whose extraction produced
\* the displayed text, and whenever the download button is enabled the
\* remembered file is that file.
C6_DownloadSendsTheExtractedFile ==
    /\ \A d \in downloads : d.file # NoFile /\ d.file = textSource
    /\ (DownloadButtonRendered /\ ~DownloadButtonDisabled /\ Idle)
            => (originalFile # NoFile /\ originalFile = textSource)

C6_Witness ==
    /\ \E d \in downloads : d.file = textSource /\ d.file = last.file
    /\ count.selections = 2
    /\ last.op = "upload" /\ last.success

\* C7: in every state in which an extraction is in flight, the extracted
\* text is empty and no file is remembered.
C7_UploadInFlightHasNoTextNoFile ==
    uploads # {} => (text = <<>> /\ originalFile = NoFile)

C7_Witness ==
    /\ uploads # {}
    /\ last.op = "upload" /\ last.success /\ Truthy(last.res.body.text)
    /\ text = <<>> /\ originalFile = NoFile

\* C8: once a handler finished with a failure the status begins with
\* "Error:" and its busy flag is false; a busy flag is true exactly while an
\* invocation of its handler is in flight, and with nothing in flight the
\* file input is enabled.
C8_ErrorsAreTerminal ==
    /\ (fresh /\ last.op = "upload" /\ ~last.success)
            => (StatusIsError /\ ~loading)
    /\ (fresh /\ last.op = "download" /\ ~last.success)
            => (StatusIsError /\ ~isDownloading)
    /\ loading <=> (uploads # {})
    /\ isDownloading <=> (downloads # {})
    /\ Idle => ~InputDisabled

C8_Witness ==
    /\ Finished("upload") /\ ~last.success /\ ~last.got
    /\ StatusIsError /\ ~loading /\ ~InputDisabled

\* C9: at most one extraction and at most one download is in flight; the
\* file input is disabled while an extraction is in flight and the download
\* button is disabled while a download is in flight.
C9_NoOperationTwiceInFlight ==
    /\ Cardinality(uploads) <= 1
    /\ Cardinality(downloads) <= 1
    /\ uploads # {} => InputDisabled
    /\ downloads # {} => DownloadButtonDisabled

C9_Witness ==
    /\ Cardinality(downloads) = 1
    /\ DownloadButtonRendered /\ DownloadButtonDisabled
    /\ count.clicks = 2

\* C10: the number of extraction requests equals the number of file
\* selections and the number of document requests equals the number of
\* download clicks; after a failure nothing is in flight until a handler is
\* started again.
C10_OneRequestPerUserAction ==
    /\ count.extractRequests = count.selections
    /\ count.docxRequests = count.clicks
    /\ (fresh /\ ~last.success) => Idle

C10_Witness ==
    /\ fresh /\ ~last.success /\ last.op = "upload"
    /\ count.selections = 2 /\ count.extractRequests = 2

\* C11: every step of handleDownload (its start, each await that settles
\* and its end, whether success, non-success status or thrown error) leaves
\* the extracted text and the remembered file as they were, and nothing else
\* changes them while a download is in flight.
C11_DownloadKeepsTextAndFile ==
    [][(downloads # {} \/ downloads' # {})
            => (text' = text /\ originalFile' = originalFile
                /\ loading' = loading)]_vars

C11_Witness ==
    /\ Finished("download") /\ ~last.success
    /\ Truthy(text) /\ originalFile = last.file /\ originalFile # NoFile
    /\ ~isDownloading

\* C12: a call of handleDownload while no file is remembered sends no
\* request and leaves the status, the extracted text, the remembered file and
\* both busy flags unchanged.
C12_DownloadWithoutFileIsNoOp ==
    [][(originalFile = NoFile /\ HandleDownload)
            => (/\ UNCHANGED <<loading, isDownloading, status, text,
                               originalFile>>
                /\ UNCHANGED <<uploads, downloads, saves>>
                /\ count'.docxRequests = count.docxRequests
                /\ count'.extractRequests = count.extractRequests)]_vars

C12_Witness ==
    /\ count.noFileClicks > 0
    /\ originalFile = NoFile
    /\ count.docxRequests = 0 /\ downloads = {} /\ ~isDownloading
    /\ last.op = "upload" /\ ~last.success /\ fresh /\ StatusIsError

\* C13: a successful document response triggers one save, under the name
\* "extracted_text.docx", and its object URL is revoked by the time the
\* status is "Success! File downloaded."; a failed download creates no
\* object URL; whenever no download is in flight no object URL is live.
C13_SaveAndRevoke ==
    /\ (Finished("download") /\ last.success)
            => /\ Len(saves) = last.saves0 + 1
               /\ saves[Len(saves)] = DocxFileName
               /\ status = SuccessFileDownloaded
               /\ liveUrls = {}
    /\ (Finished("download") /\ ~last.success) => Len(saves) = last.saves0
    /\ urlCount = Len(saves)
    /\ \A i \in 1..Len(saves) : saves[i] = DocxFileName
    /\ downloads = {} => liveUrls = {}

C13_Witness ==
    /\ Finished("download") /\ last.success
    /\ urlCount = 1 /\ liveUrls = {}
    /\ saves = <<DocxFileName>>
    /\ status = SuccessFileDownloaded

\* C14 as stated: once some handler has finished, the status is classified
\* as an error exactly when the handler that finished last failed; the
\* in-progress messages are never classified as errors.
C14_ErrorIffLastSettledFailed ==
    /\ last.op # "none" => (StatusIsError <=> ~last.success)
    /\ uploads # {} => ~StatusIsError
    /\ downloads # {} => ~StatusIsError

\* C14 amended: the status is classified as an error exactly when the
\* handler that finished last failed and no handler has been started since;
\* while a handler is in flight the status is its in-progress message
\* ("Processing <name>..." or "Preparing download..."), which is never
\* classified as an error whatever the file name, and neither are the two
\* success messages.
C14_ErrorIffLastFailedAndNothingStartedSince ==
    /\ StatusIsError <=> (fresh /\ last.op # "none" /\ ~last.success)
    /\ \A u \in uploads : status = ProcessingStatus(u.file) /\ ~StatusIsError
    /\ downloads # {} => (status = PreparingDownload /\ ~StatusIsError)
    /\ (fresh /\ last.success)
            => (/\ ~StatusIsError
                /\ status = IF last.op = "upload" THEN SuccessTextExtracted
                            ELSE SuccessFileDownloaded)

C14_Witness ==
    /\ \E u \in uploads : StartsWith(u.file.name, ErrorMarker)
    /\ last.op = "upload" /\ ~last.success /\ ~fresh
    /\ ~StatusIsError

\* C15: the two busy flags are never both true and no extraction is in
\* flight together with a download: the file input is disabled while either
\* flag is set and the download button is not rendered while loading is set.
C15_ExtractionAndDownloadExclusive ==
    /\ ~(loading /\ isDownloading)
    /\ ~(uploads # {} /\ downloads # {})
    /\ (loading \/ isDownloading) => InputDisabled
    /\ loading => ~DownloadButtonRendered

C15_Witness ==
    /\ isDownloading /\ ~loading /\ InputDisabled
    /\ downloads # {} /\ uploads = {}
    /\ last.op = "download"

\* C16 as stated: with nothing in flight, the extracted text is non-empty
\* if and only if a file is remembered.
C16_TextIffFile ==
    Idle => (Truthy(text) <=> originalFile # NoFile)

\* C16 amended: with nothing in flight, a non-empty extracted text implies a
\* remembered file; a successful extraction always leaves the file
\* remembered and the text equal to the response's text field, so a file is
\* remembered without text exactly after a successful extraction whose text
\* was empty or missing; any failed extraction leaves both unset.
C16_TextImpliesFile ==
    /\ (Idle /\ Truthy(text)) => originalFile # NoFile
    /\ (Finished("upload") /\ last.success)
            => (originalFile = last.file /\ originalFile # NoFile
                /\ text = last.res.body.text)
    /\ (Idle /\ originalFile # NoFile /\ ~Truthy(text))
            => (last.op = "upload" /\ last.success
                /\ ~Truthy(last.res.body.text))
    /\ (Finished("upload") /\ ~last.success)
            => (~Truthy(text) /\ originalFile = NoFile)

C16_Witness ==
    /\ Idle /\ Finished("upload") /\ last.success
    /\ last.res.body.text = <<>>
    /\ text = <<>> /\ originalFile # NoFile
    /\ ~DownloadButtonRendered

\* C17: after handleUpload finished with any failure the extracted text is
\* empty, no file is remembered and the download button is absent, also
\* when an earlier extraction had succeeded.
C17_FailedExtractionLeavesNothing ==
    (Finished("upload") /\ ~last.success)
        => (text = <<>> /\ originalFile = NoFile /\ textSource = NoFile
            /\ ~DownloadButtonRendered)

C17_Witness ==
    /\ Finished("upload") /\ ~last.success
    /\ count.clicks = 1 /\ Len(saves) = 1
    /\ text = <<>> /\ originalFile = NoFile /\ ~DownloadButtonRendered

=============================================================================
